---- MODULE Spec2Model ----
(***************************************************************************)
(* Inner-product functional encryption over ElGamal (FE.cpp).              *)
(*                                                                         *)
(* Four specifications share this module:                                  *)
(*   Spec         the FE_inner_product_DDH object driven through its       *)
(*                public methods (Key_Derivation, Encrypt, Decrypt, Info); *)
(*   SpecHeld     the same, plus a caller that keeps a copy of a derived   *)
(*                key and uses the two-argument Decrypt;                   *)
(*   SpecElGamal  one ElGamal_Client (Encrypt, Decrypt);                   *)
(*   SpecGcd      the recursion of ElGamal_Client::gcdExtended unfolded    *)
(*                into call and return steps.                              *)
(***************************************************************************)
EXTENDS Integers, Sequences, FiniteSets

VARIABLES
    param,      \* ElGamal_Client::param : [p, g]
    vec_len,    \* FE_inner_product_DDH::vec_len
    key_x,      \* key_gen[i].x, the private keys
    key_h,      \* key_gen[i].h, the public keys
    y,          \* FE_inner_product_DDH::y, the stored query vector
    sk_y,       \* FE_inner_product_DDH::sk.sk_y, the stored derived key
    setup,      \* history: the key pairs and parameters as constructed
    ct,         \* the caller's cipher_text_FE object
    enc_x,      \* history: the message vector Encrypt read to produce ct (<<>> if none)
    held,       \* the caller's own secret_key_FE object, with the y it was derived for
    client,     \* a standalone ElGamal_Client : [x, h]
    eg_ct,      \* the caller's cipher_text object
    eg_msg,     \* history: the message ElGamal Encrypt put into eg_ct (0 if none)
    stack,      \* gcdExtended: the frames [c0, p] of the calls in progress
    gcd_in,     \* gcdExtended: the arguments of the outermost call
    gcd_out,    \* gcdExtended: the outputs of the call that returned last
    last        \* the last call made and how it ended

vars == <<param, vec_len, key_x, key_h, y, sk_y, setup, ct, enc_x, held,
          client, eg_ct, eg_msg, stack, gcd_in, gcd_out, last>>

fe_fields == <<vec_len, key_x, key_h, y, sk_y>>
fe_vars == <<vec_len, key_x, key_h, y, sk_y, setup, ct, enc_x, held>>
eg_vars == <<client, eg_ct, eg_msg>>
gcd_vars == <<stack, gcd_in, gcd_out>>

----------------------------------------------------------------------------
(* Program constants and bounds *)

\* ElGamal_Param(): mpz_set_ui(p,73)
P73 == 73
\* ElGamal_Param(): mpz_set_ui(g,15)
G15 == 15

\* the largest vector length a scheme is constructed with
MaxLen == 2
\* a standalone ElGamal encryption draws its randomness from 0..MaxRand and p-1
MaxRand == 3
\* standalone ElGamal messages are drawn from 1..MaxMsg and p-1
MaxMsg == 5
\* gcdExtended is also run on every modulus 1..MaxMod
MaxMod == 12

p == param.p
g == param.g

\* scalars of [0,p) used as vector entries
Scalars == {1, P73 - 1}
\* the private keys ElGamal_Client() draws for the scheme's key pairs
PrivateKeys == {5, P73 - 1}
\* the fixture of the concrete scenario: x = [5,7], y = [2,3]
FixtureX == <<5, 7>>
FixtureY == <<2, 3>>
Zeros(n) == [i \in 1..n |-> 0]
Vectors(n) == [1..n -> Scalars] \cup {Zeros(n)}
MsgVecs(n) == Vectors(n) \cup (IF n = Len(FixtureX) THEN {FixtureX} ELSE {})
QueryVecs(n) == Vectors(n) \cup (IF n = Len(FixtureY) THEN {FixtureY} ELSE {})
RandVals == (0..MaxRand) \cup {P73 - 1}
\* the commitments Get_Commitment() returns to Encrypt(msg)
Commitments == {1, P73 - 1}
MsgVals == (1..MaxMsg) \cup {P73 - 1}
Lengths == 1..MaxLen
\* an array of the wrong length n handed to a method
WrongLengths == Lengths \ {vec_len}

----------------------------------------------------------------------------
(* Arithmetic *)

RECURSIVE ModExp(_, _, _)
\* mpz_powm(rop, base, exp, mod) for exp >= 0: square and multiply
ModExp(b, e, m) ==
    IF e = 0 THEN 1 % m
    ELSE LET h == ModExp(b, e \div 2, m)
             s == (h * h) % m
         IN IF e % 2 = 1 THEN (s * (b % m)) % m ELSE s

\* the mathematical gcd, by definition (not by Euclid)
Divides(d, n) == \E k \in 0..n : d * k = n
MathGcd(a, b) ==
    IF a = 0 THEN b
    ELSE CHOOSE d \in 1..a :
            /\ Divides(d, a) /\ Divides(d, b)
            /\ \A e \in (d + 1)..a : ~(Divides(e, a) /\ Divides(e, b))

\* gcdExtended, the lines after the recursive call: t holds the callee's outputs
gcdCombineSwapped(c0, pp, t) ==
    [inv |-> t.inv - (pp \div c0) * t.co_inv, co_inv |-> t.co_inv, gcd |-> t.gcd]
gcdCombine(c0, pp, t) ==
    [inv |-> t.co_inv - (pp \div c0) * t.inv, co_inv |-> t.inv, gcd |-> t.gcd]

\* gcdExtended, the base case c0 = 0
gcdBase(pp) == [inv |-> 0, co_inv |-> 1, gcd |-> pp]

RECURSIVE gcdExtended(_, _)
gcdExtended(c0, pp) ==
    IF c0 = 0 THEN gcdBase(pp)
    ELSE gcdCombine(c0, pp, gcdExtended(pp % c0, c0))

----------------------------------------------------------------------------
(* ElGamal_Client *)

\* ElGamal_Client(): h = g^x mod p
PublicKeyOffByOne(x) == ModExp(g, x + 1, p)
PublicKey(x) == ModExp(g, x, p)

\* ElGamal_Client::Encrypt(msg, y, rcvr) with rcvr.h = h and y.rand = r
ElGamal_Encrypt(msg, r, h) ==
    [c0 |-> ModExp(g, r, p), c1 |-> (ModExp(h, r, p) * msg) % p]

\* ElGamal_Client::Decrypt(c, key): the values it computes on the way
ElGamal_DecryptNoInverse(c, key) ==
    LET shared == ModExp(c.c0, key, p)
    IN [shared |-> shared, t |-> gcdExtended(shared, p),
        msg |-> (c.c1 * shared) % p]
ElGamal_Decrypt(c, key) ==
    LET shared == ModExp(c.c0, key, p)
        t == gcdExtended(shared, p)
        t1 == t.inv % p
    IN [shared |-> shared, t |-> t, msg |-> (c.c1 * t1) % p]

----------------------------------------------------------------------------
(* FE_inner_product_DDH *)

RECURSIVE SumTo(_, _)
\* sum of f[1..n]
SumTo(f, n) == IF n = 0 THEN 0 ELSE SumTo(f, n - 1) + f[n]

RECURSIVE ProdModTo(_, _)
\* the loop c1 = (c1 * f[i]) mod p of Decrypt, from c1 = 1
ProdModTo(f, n) == IF n = 0 THEN 1 ELSE (ProdModTo(f, n - 1) * f[n]) % p

\* the unreduced inner product of two vectors of length vec_len
Dot(a, b) == SumTo([i \in 1..vec_len |-> a[i] * b[i]], vec_len)

\* Key_Derivation: the loop summing y[i] * key_gen[i].x into sk.sk_y
DeriveKeyModP(yy) == Dot(yy, key_x) % p
DeriveKey(yy) == Dot(yy, key_x)

\* g_x(x, gx)
g_x(x) == [i \in 1..vec_len |-> ModExp(g, x[i], p)]

\* Encrypt(msg) with the commitment r
FE_EncryptFreshRand(msg, r) ==
    [c0 |-> ModExp(g, r, p),
     c1 |-> [i \in 1..vec_len |-> ElGamal_Encrypt(g_x(msg)[i], r + i - 1, key_h[i]).c1]]
FE_Encrypt(msg, r) ==
    LET g_msg == g_x(msg)
    IN [c0 |-> ModExp(g, r, p),
        c1 |-> [i \in 1..vec_len |-> ElGamal_Encrypt(g_msg[i], r, key_h[i]).c1]]

\* Decrypt(ct, sk): the loop over ct.c1[i]^y[i]
AggregateNoWeights(c1) == ProdModTo(c1, vec_len)
Aggregate(c1) ==
    ProdModTo([i \in 1..vec_len |-> ModExp(c1[i], y[i], p)], vec_len)

\* Decrypt(ct, sk), c1 being the vec_len slots it read
FE_Decrypt(c0, c1, key) ==
    ElGamal_Decrypt([c0 |-> c0, c1 |-> Aggregate(c1)], key).msg

\* The vec_len slots a method reads from a caller's array of Len(vec) slots:
\* the array carries no length, slots past its end hold whatever is there.
Slots(vec, beyond) ==
    [i \in 1..vec_len |-> IF i <= Len(vec) THEN vec[i] ELSE beyond[i]]
Beyond(vec) == [(Len(vec) + 1)..vec_len -> Scalars]

\* cipher_text_FE(len)
cipher_text_FE(len) == [c0 |-> 0, c1 |-> Zeros(len)]
\* secret_key_FE()
secret_key_FE == [sk_y |-> 0, y |-> <<>>]
\* cipher_text()
cipher_text == [c0 |-> 0, c1 |-> 0]

Call(op, len_ok, outcome, ret) ==
    [op |-> op, len_ok |-> len_ok, outcome |-> outcome, ret |-> ret]
Running == last.outcome # "crash"

----------------------------------------------------------------------------
(* Initial states *)

\* ElGamal_Param()
InitParam == param = [p |-> P73, g |-> G15]

\* no standalone client, no gcdExtended call
IdleElGamal ==
    /\ client = [x |-> 0, h |-> 1]
    /\ eg_ct = cipher_text
    /\ eg_msg = 0
IdleGcd ==
    /\ stack = <<>>
    /\ gcd_in = [c0 |-> 0, p |-> 1]
    /\ gcd_out = gcdBase(1)

\* FE_inner_product_DDH(len): len key pairs, y zeroed, sk zeroed
InitFE ==
    /\ vec_len \in Lengths
    /\ key_x \in [1..vec_len -> PrivateKeys]
    /\ key_h = [i \in 1..vec_len |-> PublicKey(key_x[i])]
    /\ y = Zeros(vec_len)
    /\ sk_y = 0
    /\ setup = [x |-> key_x, h |-> key_h, param |-> param]
    /\ ct = cipher_text_FE(vec_len)
    /\ enc_x = <<>>
    /\ held = secret_key_FE

Init ==
    /\ InitParam
    /\ InitFE
    /\ IdleElGamal
    /\ IdleGcd
    /\ last = Call("Setup", TRUE, "ok", 0)

----------------------------------------------------------------------------
(* FE_inner_product_DDH: the methods *)

\* Key_Derivation(vec) returns: y and sk.sk_y are overwritten
Key_Derivation(vec) ==
    /\ Running
    /\ \E beyond \in Beyond(vec) :
         LET yy == Slots(vec, beyond) IN
         /\ y' = yy
         /\ sk_y' = DeriveKey(yy)
    /\ last' = Call("Key_Derivation", Len(vec) = vec_len, "ok", 0)
    /\ UNCHANGED <<param, vec_len, key_x, key_h, setup, ct, enc_x, held>>
    /\ UNCHANGED <<eg_vars, gcd_vars>>

\* Encrypt(msg) returns a ciphertext of vec_len slots
EncryptStoresY(msg) ==
    /\ Running
    /\ \E r \in Commitments, beyond \in Beyond(msg) :
         LET x == Slots(msg, beyond) IN
         /\ ct' = FE_Encrypt(x, r)
         /\ enc_x' = x
         /\ y' = [i \in 1..vec_len |-> r]
    /\ last' = Call("Encrypt", Len(msg) = vec_len, "ok", 0)
    /\ UNCHANGED <<param, vec_len, key_x, key_h, sk_y, setup, held>>
    /\ UNCHANGED <<eg_vars, gcd_vars>>
Encrypt(msg) ==
    /\ Running
    /\ \E r \in Commitments, beyond \in Beyond(msg) :
         LET x == Slots(msg, beyond) IN
         /\ ct' = FE_Encrypt(x, r)
         /\ enc_x' = x
    /\ last' = Call("Encrypt", Len(msg) = vec_len, "ok", 0)
    /\ UNCHANGED <<param, fe_fields, setup, held>>
    /\ UNCHANGED <<eg_vars, gcd_vars>>

\* Decrypt(ct): decryption with the stored sk
Decrypt ==
    /\ Running
    /\ \E beyond \in Beyond(ct.c1) :
         last' = Call("Decrypt", Len(ct.c1) = vec_len, "ok",
                      FE_Decrypt(ct.c0, Slots(ct.c1, beyond), sk_y))
    /\ UNCHANGED <<param, fe_vars, eg_vars, gcd_vars>>

\* Decrypt(ct, sk) with the caller's own secret_key_FE
DecryptWith ==
    /\ Running
    /\ \E beyond \in Beyond(ct.c1) :
         last' = Call("DecryptWith", Len(ct.c1) = vec_len, "ok",
                      FE_Decrypt(ct.c0, Slots(ct.c1, beyond), held.sk_y))
    /\ UNCHANGED <<param, fe_vars, eg_vars, gcd_vars>>

\* A method reading a slot past the end of the caller's array may also fault.
Fault(op, len) ==
    /\ Running
    /\ len < vec_len
    /\ last' = Call(op, FALSE, "crash", 0)
    /\ UNCHANGED <<param, fe_vars, eg_vars, gcd_vars>>

\* Info(): one "Error" line per key pair with g^x mod p # h
Info ==
    /\ Running
    /\ last' = Call("Info", TRUE, "ok",
                    Cardinality({i \in 1..vec_len : PublicKey(key_x[i]) # key_h[i]}))
    /\ UNCHANGED <<param, fe_vars, eg_vars, gcd_vars>>

\* the caller constructs cipher_text_FE(len)
New_cipher_text_FE(len) ==
    /\ Running
    /\ ct' = cipher_text_FE(len)
    /\ enc_x' = <<>>
    /\ last' = Call("cipher_text_FE", TRUE, "ok", 0)
    /\ UNCHANGED <<param, fe_fields, setup, held, eg_vars, gcd_vars>>

\* the caller copies the key Key_Derivation just printed into its own secret_key_FE
Hold_Key ==
    /\ Running
    /\ last.op = "Key_Derivation" /\ last.len_ok
    /\ held' = [sk_y |-> sk_y, y |-> y]
    /\ last' = Call("secret_key_FE", TRUE, "ok", 0)
    /\ UNCHANGED <<param, fe_fields, setup, ct, enc_x, eg_vars, gcd_vars>>

Next ==
    \/ \E vec \in QueryVecs(vec_len) : Key_Derivation(vec)
    \/ \E n \in WrongLengths : Key_Derivation(Zeros(n))
    \/ \E msg \in MsgVecs(vec_len) : Encrypt(msg)
    \/ \E n \in WrongLengths : Encrypt(Zeros(n))
    \/ Decrypt
    \/ Info
    \/ \E n \in Lengths : New_cipher_text_FE(n)
    \/ \E n \in Lengths : Fault("Key_Derivation", n)
    \/ \E n \in Lengths : Fault("Encrypt", n)
    \/ Fault("Decrypt", Len(ct.c1))

Spec == Init /\ [][Next]_vars

NextHeld ==
    \/ \E vec \in Vectors(vec_len) : Key_Derivation(vec)
    \/ \E msg \in Vectors(vec_len) : Encrypt(msg)
    \/ Hold_Key
    \/ DecryptWith

SpecHeld == Init /\ [][NextHeld]_vars

----------------------------------------------------------------------------
(* A standalone ElGamal_Client *)

\* no FE_inner_product_DDH object
IdleFE ==
    /\ vec_len = 0
    /\ key_x = <<>>
    /\ key_h = <<>>
    /\ y = <<>>
    /\ sk_y = 0
    /\ setup = [x |-> key_x, h |-> key_h, param |-> param]
    /\ ct = cipher_text_FE(0)
    /\ enc_x = <<>>
    /\ held = secret_key_FE

\* ElGamal_Client(): x random in [0,p), h = g^x mod p
InitElGamal ==
    /\ InitParam
    /\ IdleFE
    /\ IdleGcd
    /\ \E x \in 0..(P73 - 1) : client = [x |-> x, h |-> PublicKey(x)]
    /\ eg_ct = cipher_text
    /\ eg_msg = 0
    /\ last = Call("ElGamal_Client", TRUE, "ok", 0)

\* the keys a caller hands to Decrypt(c, key)
SuppliedKeys == {0, 1, P73 - 1, client.x}

\* What a Decrypt call computed and returned. Decrypt has no error path: it
\* always returns a plain_text.
Decrypted(op, key, d) ==
    [op |-> op, len_ok |-> TRUE, outcome |-> "ok", ret |-> d.msg,
     key |-> key, shared |-> d.shared, t |-> d.t]

\* some client encrypts msg to this client: Encrypt(msg, y, rcvr)
Encrypt_To_Client(msg, r) ==
    /\ eg_ct' = ElGamal_Encrypt(msg, r, client.h)
    /\ eg_msg' = msg
    /\ last' = Call("Encrypt", TRUE, "ok", 0)
    /\ UNCHANGED <<param, fe_vars, client, gcd_vars>>

\* Decrypt(c, key) with a key the caller supplies
Decrypt_Key(key) ==
    /\ last' = Decrypted("Decrypt(c,key)", key, ElGamal_Decrypt(eg_ct, key))
    /\ UNCHANGED <<param, fe_vars, eg_vars, gcd_vars>>

\* Decrypt(c) = Decrypt(c, x)
Decrypt_Own ==
    /\ last' = Decrypted("Decrypt(c)", client.x, ElGamal_Decrypt(eg_ct, client.x))
    /\ UNCHANGED <<param, fe_vars, eg_vars, gcd_vars>>

\* the caller constructs cipher_text()
New_cipher_text ==
    /\ eg_ct' = cipher_text
    /\ eg_msg' = 0
    /\ last' = Call("cipher_text", TRUE, "ok", 0)
    /\ UNCHANGED <<param, fe_vars, client, gcd_vars>>

NextElGamal ==
    \/ \E msg \in MsgVals, r \in RandVals : Encrypt_To_Client(msg, r)
    \/ \E key \in SuppliedKeys : Decrypt_Key(key)
    \/ Decrypt_Own
    \/ New_cipher_text

SpecElGamal == InitElGamal /\ [][NextElGamal]_vars

----------------------------------------------------------------------------
(* gcdExtended as call and return steps *)

Moduli == {P73} \cup (2..MaxMod)
Top == stack[Len(stack)]
Pop == SubSeq(stack, 1, Len(stack) - 1)
Phase(rest) == IF rest = <<>> THEN "done" ELSE "returning"

\* gcdExtended(c0, p, ...) is entered with 0 <= c0 < p
InitGcd ==
    /\ InitParam
    /\ IdleFE
    /\ IdleElGamal
    /\ \E m \in Moduli : \E a \in 0..(m - 1) : gcd_in = [c0 |-> a, p |-> m]
    /\ stack = <<gcd_in>>
    /\ gcd_out = gcdBase(0)
    /\ last = Call("gcdExtended", TRUE, "calling", 0)

\* c0 # 0: r = p mod c0; gcdExtended(r, c0, ...)
GcdCall ==
    /\ last.outcome = "calling"
    /\ Top.c0 # 0
    /\ stack' = Append(stack, [c0 |-> Top.p % Top.c0, p |-> Top.c0])
    /\ last' = Call("gcdExtended", TRUE, "calling", Len(stack))
    /\ UNCHANGED <<param, fe_vars, eg_vars, gcd_in, gcd_out>>

\* c0 = 0: inv = 0, co_inv = 1, gcd = p; return
GcdBaseReturn ==
    /\ last.outcome = "calling"
    /\ Top.c0 = 0
    /\ gcd_out' = gcdBase(Top.p)
    /\ stack' = Pop
    /\ last' = Call("gcdExtended", TRUE, Phase(Pop), Len(Pop))
    /\ UNCHANGED <<param, fe_vars, eg_vars, gcd_in>>

\* the callee returned: inv = t2 - (p / c0) * t1, co_inv = t1; return
GcdReturn ==
    /\ last.outcome = "returning"
    /\ gcd_out' = gcdCombine(Top.c0, Top.p, gcd_out)
    /\ stack' = Pop
    /\ last' = Call("gcdExtended", TRUE, Phase(Pop), Len(Pop))
    /\ UNCHANGED <<param, fe_vars, eg_vars, gcd_in>>

NextGcd ==
    \/ GcdCall
    \/ GcdBaseReturn
    \/ GcdReturn

\* a call in progress keeps running
SpecGcd == InitGcd /\ [][NextGcd]_vars /\ WF_vars(NextGcd)

----------------------------------------------------------------------------
(* Properties *)

\* Decrypt(ct) returned, ct being what Encrypt made of enc_x
DecryptedEncrypted ==
    /\ last.op = "Decrypt" /\ last.outcome = "ok" /\ last.len_ok
    /\ enc_x # <<>>

\* C1: Decrypt of an Encrypt(x) under the stored key returns g^<x,y> mod p, the
\* exponent being the unreduced inner product of x and the stored y; for
\* x = [5,7], y = [2,3] that is 15^31 mod 73.
IPFE_Correct ==
    /\ DecryptedEncrypted => last.ret = ModExp(g, Dot(enc_x, y), p)
    /\ DecryptedEncrypted /\ enc_x = FixtureX /\ y = FixtureY
         => last.ret = ModExp(15, 31, 73)
IPFE_Correct_Witness ==
    /\ DecryptedEncrypted /\ enc_x = FixtureX /\ y = FixtureY
    /\ last.ret = ModExp(15, 31, 73)
    /\ key_x = <<5, P73 - 1>>

\* C3 as stated: Decrypt returns g raised to the inner product reduced modulo p.
IPFE_ReducedModP ==
    DecryptedEncrypted => last.ret = ModExp(g, Dot(enc_x, y) % p, p)
\* C3 amended: the exponent is the inner product itself, equally its residue
\* modulo p-1, not its residue modulo p.
IPFE_ReducedModOrder ==
    DecryptedEncrypted => last.ret = ModExp(g, Dot(enc_x, y) % (p - 1), p)
IPFE_ReducedModOrder_Witness ==
    /\ DecryptedEncrypted
    /\ Dot(enc_x, y) >= p
    /\ last.ret # ModExp(g, Dot(enc_x, y) % p, p)

\* C4 as stated: the stored sk_y is the sum of y_i * x_i reduced modulo p, so
\* it lies in [0,p).
DerivedKeyReduced ==
    /\ sk_y = Dot(y, key_x) % p
    /\ sk_y \in 0..(p - 1)
\* C4 amended: the stored sk_y is the sum of y_i * x_i as an integer, not
\* reduced: it lies in [0, l*(p-1)^2] and is congruent modulo p to the value
\* the claim names.
DerivedKeyUnreduced ==
    /\ sk_y = Dot(y, key_x)
    /\ sk_y \in 0..(vec_len * (p - 1) * (p - 1))
    /\ sk_y % p = Dot(y, key_x) % p
DerivedKeyUnreduced_Witness ==
    /\ last.op = "Key_Derivation" /\ last.outcome = "ok" /\ last.len_ok
    /\ sk_y >= p

\* C5: a key derived for y1 and kept by the caller still decrypts Encrypt(x)
\* to g^<x,y1> mod p after further Key_Derivation calls.
HeldKeyStillDecrypts ==
    (last.op = "DecryptWith" /\ held.y # <<>> /\ enc_x # <<>>)
        => last.ret = ModExp(g, Dot(enc_x, held.y), p)

LengthChecked == ~last.len_ok => last.outcome = "InvalidVectorLength"

\* C8: the inverse step of Decrypt succeeds, with a value in [0,p), iff
\* gcd(shared, p) = 1, and otherwise ends in NonInvertibleElement.
IsDecrypt == last.op \in {"Decrypt(c,key)", "Decrypt(c)"}
NonInvertibleRejected ==
    IsDecrypt =>
        IF MathGcd(last.shared, p) = 1
        THEN last.outcome = "ok" /\ last.t.inv % p \in 0..(p - 1)
        ELSE last.outcome = "NonInvertibleElement"

\* C2: decrypting Encrypt(m, r, h) with the private key x of h = g^x mod p,
\* supplied or the client's own, returns m.
RoundTrip ==
    (IsDecrypt /\ eg_msg # 0 /\ last.key = client.x) => last.ret = eg_msg
RoundTrip_Witness ==
    /\ last.op = "Decrypt(c)" /\ eg_msg = P73 - 1 /\ client.x = 5
    /\ last.shared \notin {0, 1}
    /\ last.ret = eg_msg

\* C9: every key pair keeps x in [0,p) and h = g^x mod p, as constructed;
\* Info reports no error; p and g keep their values.
KeyPairInvariant ==
    /\ \A i \in 1..vec_len :
          /\ key_x[i] \in 0..(p - 1)
          /\ key_h[i] = ModExp(g, key_x[i], p)
    /\ key_x = setup.x /\ key_h = setup.h
    /\ param = setup.param /\ param = [p |-> 73, g |-> 15]
    /\ last.op = "Info" => last.ret = 0
KeyPairInvariant_Witness ==
    /\ last.op = "Info"
    /\ sk_y >= p
    /\ enc_x # <<>>

\* C10: gcdExtended(c0, p) returns, with c0*inv + p*co_inv = gcd = gcd(c0, p);
\* when gcd = 1, inv mod p is the one value of [0,p) whose product with c0
\* is 1 modulo p.
GcdDone == last.outcome = "done"
Bezout ==
    LET a == gcd_in.c0
        m == gcd_in.p
        v == gcd_out.inv % m
    IN /\ a * gcd_out.inv + m * gcd_out.co_inv = gcd_out.gcd
       /\ gcd_out.gcd = MathGcd(a, m)
       /\ gcd_out = gcdExtended(a, m)
       /\ gcd_out.gcd = 1 =>
            /\ (a * v) % m = 1
            /\ \A w \in 0..(m - 1) : (a * w) % m = 1 => w = v
ExtendedEuclid == [](GcdDone => Bezout) /\ <>GcdDone
ExtendedEuclid_Witness ==
    /\ GcdDone
    /\ gcd_in.p = P73 /\ gcd_in.c0 > 1
    /\ gcd_out.inv < 0

====
